---- MODULE Spec2Model ----
(***************************************************************************)
(* A model of the watermark remover's video pipeline (src/main.py):        *)
(* process_video_async and process_video_with_inpainting for one task,     *)
(* the per-batch thread pool, the frame writer, the ffmpeg remux step and  *)
(* the task's record in processing_status.                                 *)
(*                                                                         *)
(* Times are exact rationals: current_time = current_frame_num / fps is   *)
(* kept as the pair (n, d), and the region windows of WATERMARK_MASKS are  *)
(* kept in tenths of a second, so  start <= n/d < end  is decided by       *)
(* cross-multiplication (fps is an integer here).                          *)
(***************************************************************************)
EXTENDS Integers, Sequences, FiniteSets, TLC

\* ------------------------------------------------------------------ bounds

\* The capture yields at most this many frames before cap.read() fails.
MaxFrames == 52

\* Small container-reported frame counts 0..MaxSmallCount are tried, next to
\* the counts around MaxFrames.
MaxSmallCount == 4

\* On the hosts with more than one processor the capture yields at most this
\* many frames: the batches stay small while their frames are in flight.
MaxShortFrames == 6

\* ------------------------------------------------------- program constants

\* batch_size = 50
batch_size == 50

\* the cap in min(8, multiprocessing.cpu_count())
WorkerCap == 8

\* the side of the kernel in cv2.GaussianBlur(mask_float, (21, 21), 0)
FeatherKernel == 21

\* ------------------------------------------------------------ input domains

\* multiprocessing.cpu_count() on the host: one processor (the pool is a single
\* thread) and two (two frames of a batch are in flight and may finish in
\* either order)
CpuCounts == {1, 2}

\* multiprocessing.cpu_count() on the larger hosts: pools of 4 and of 8 worker
\* threads
ManyCpuCounts == {4, 8}

\* cap.get(CAP_PROP_FPS): 0 is what a container without a frame rate reports
FpsValues == {0, 5, 30}

\* cap.get(CAP_PROP_FRAME_COUNT): the container's own claim, which need not
\* be the number of frames cap.read() goes on to deliver
ReportedCounts == (0 .. MaxSmallCount) \cup ((MaxFrames - 1) .. (MaxFrames + 1))

\* How the ffmpeg run can end:
\*   ok        exit 0, a non-empty muxed file at output_with_audio
\*   no_output non-zero exit, nothing written
\*   partial   non-zero exit after a non-empty, truncated file was written
\*   empty     a zero-byte file at output_with_audio
\*   raised    subprocess.run raised (no such executable)
\*   hang      the child never exits
EncoderOutcomes == {"ok", "no_output", "partial", "empty", "raised", "hang"}

\* ------------------------------------------------------------------- state

VARIABLES
    pc,                 \* where the background job stands
    processing_status,  \* processing_status[task_id], or NoRecord
    fs,                 \* the files at input_path, output_video_path, output_with_audio
    cap_opened,         \* cap.isOpened()
    out_opened,         \* out.isOpened(): whether the VideoWriter could be opened
    fps,                \* cap.get(cv2.CAP_PROP_FPS)
    frame_count,        \* int(cap.get(cv2.CAP_PROP_FRAME_COUNT))
    max_workers,        \* min(8, multiprocessing.cpu_count())
    decoded,            \* frames cap.read() has delivered so far
    read_failed,        \* cap.read() returned ret = False
    current_frame_num,
    frame_batch,
    time_batch,
    masks,              \* the batch's mask buffers, one per frame
    next_item,          \* next work item of executor.map to be taken by a worker
    running,            \* work items a worker thread is processing
    results,            \* the futures' results, by work item
    first_done,         \* the work item that finished first in this batch (0: none yet)
    processed_frames,
    write_idx,          \* position of the writer loop in processed_frames
    written,            \* every frame passed to out.write, in call order
    encoder,            \* how the ffmpeg run ended ("none": not run)
    result,             \* what process_video_with_inpainting returned / raised
    cpu_count,          \* multiprocessing.cpu_count() of the host
    stream_len,         \* frames the input holds at most: cap.read() fails from there on
    webhook_url,        \* whether the upload gave a webhook_url
    webhook_posts,      \* what was posted to the webhook, in order
    last_reply          \* what the latest GET /status/{task_id} answered

pipeVars == <<pc, processing_status, fs, cap_opened, out_opened, fps, frame_count,
              max_workers, decoded, read_failed, current_frame_num, frame_batch,
              time_batch, masks, next_item, running, results, first_done,
              processed_frames, write_idx, written, encoder, result>>

\* What is fixed before the background job starts.
hostVars == <<cpu_count, stream_len, webhook_url>>

vars == <<pipeVars, hostVars, webhook_posts, last_reply>>

\* -------------------------------------------------------------- mask data

\* WATERMARK_MASKS, with start and end in tenths of a second
WATERMARK_MASKS ==
    << [id |-> 1, x |-> 330, y |-> 404, w |-> 150, h |-> 62, start |-> 0,  end |-> 10],
       [id |-> 2, x |-> 5,   y |-> 670, w |-> 130, h |-> 75, start |-> 5,  end |-> 40],
       [id |-> 3, x |-> 10,  y |-> 37,  w |-> 120, h |-> 72, start |-> 32, end |-> 62],
       [id |-> 4, x |-> 334, y |-> 398, w |-> 138, h |-> 67, start |-> 60, end |-> 90],
       [id |-> 5, x |-> 0,   y |-> 670, w |-> 130, h |-> 75, start |-> 70, end |-> 98] >>

\* current_time = current_frame_num / fps, as the exact fraction n / d (d > 0)
TimeOf(n, d) == [n |-> n, d |-> d]

\* wm['start'] <= current_time, the window bound being in tenths of a second
StartReached(wm, t) == wm.start * t.d <= 10 * t.n

\* current_time <= wm['end']: the window test with the end included
NotAfterEnd(wm, t) == 10 * t.n <= wm.end * t.d

\* current_time < wm['end']
BeforeEnd(wm, t) == 10 * t.n < wm.end * t.d

\* wm['start'] <= current_time < wm['end']
WindowContains(wm, t) == StartReached(wm, t) /\ BeforeEnd(wm, t)

\* The pixels cv2.rectangle(mask, (x, y), (x + w, y + h), 255, -1) fills: both
\* corners are part of the filled rectangle (before clipping to the frame).
FilledRect(wm) == [x0 |-> wm.x, y0 |-> wm.y, x1 |-> wm.x + wm.w, y1 |-> wm.y + wm.h]

\* A mask buffer is the set of filled rectangles drawn into it; np.zeros is {}.
ZeroMask == {}

\* Whether pixel (px, py) of a mask is set.
MaskPixel(mask, px, py) ==
    \E r \in mask : r.x0 <= px /\ px <= r.x1 /\ r.y0 <= py /\ py <= r.y1

\* The loop over WATERMARK_MASKS from entry i on: the mask with every active
\* region's rectangle drawn into it, and is_watermark_present.
RECURSIVE DrawActive(_, _, _, _)
DrawActive(i, mask, present, t) ==
    IF i > Len(WATERMARK_MASKS) THEN [mask |-> mask, present |-> present]
    ELSE LET wm == WATERMARK_MASKS[i]
         IN  IF WindowContains(wm, t)
             THEN DrawActive(i + 1, mask \cup {FilledRect(wm)}, TRUE, t)
             ELSE DrawActive(i + 1, mask, present, t)

\* A decoded frame: its decode index, the pixels reconstructed in it (none),
\* and whether it went through inpaint, blur and blend (it did not).
RawFrame(k) == [src |-> k, inpainted |-> {}, blended |-> FALSE]

\* inpaint, blur, feather and blend: a new frame with the masked pixels rebuilt
Blend(frame, mask) ==
    [src |-> frame.src, inpainted |-> frame.inpainted \cup mask, blended |-> TRUE]

\* How far from a masked pixel the blurred mask is above zero: the kernel of
\* side FeatherKernel, centred on a pixel, reaches (FeatherKernel - 1) / 2
\* pixels to each side.
FeatherReach == (FeatherKernel - 1) \div 2

\* A feather that reaches the whole side of the kernel to each side.
FeatherWeightPositiveWide(mask, px, py) ==
    \E r \in mask : /\ r.x0 - FeatherKernel <= px /\ px <= r.x1 + FeatherKernel
                    /\ r.y0 - FeatherKernel <= py /\ py <= r.y1 + FeatherKernel

\* mask_soft = cv2.GaussianBlur(mask_float, (21, 21), 0) is above zero at
\* (px, py): a masked pixel lies in the kernel's window around (px, py), that
\* is within FeatherReach of it in x and in y.
FeatherWeightPositive(mask, px, py) ==
    \E r \in mask : /\ r.x0 - FeatherReach <= px /\ px <= r.x1 + FeatherReach
                    /\ r.y0 - FeatherReach <= py /\ py <= r.y1 + FeatherReach

\* final_frame = mask_soft * reconstructed + (1 - mask_soft) * frame: pixel
\* (px, py) of a returned frame can differ from the decoded one only in a frame
\* that was blended, and there only where mask_soft is above zero.
PixelMayDiffer(out, px, py) ==
    out.blended /\ FeatherWeightPositive(out.inpainted, px, py)

\* process_frame_with_watermark without "if not is_watermark_present: return
\* frame": every frame is inpainted, blurred and blended.
process_frame_always_blends(frame, mask, t) ==
    LET d == DrawActive(1, mask, FALSE, t)
    IN  [ret |-> Blend(frame, d.mask), mask |-> d.mask]

\* process_frame_with_watermark(frame, mask, current_time): the returned frame
\* and the mask buffer as the call leaves it.
process_frame_with_watermark(frame, mask, t) ==
    LET d == DrawActive(1, mask, FALSE, t)
    IN  [ret  |-> IF d.present THEN Blend(frame, d.mask) ELSE frame,
         mask |-> d.mask]

\* ------------------------------------------------------------ status, files

\* No entry for the task in processing_status.
NoRecord == [absent |-> TRUE]

HasRecord(r) == "status" \in DOMAIN r

HasProgress(r) == "progress" \in DOMAIN r

\* The status of a record, "absent" when there is none.
StatusOf(r) == IF HasRecord(r) THEN r.status ELSE "absent"

\* No status query was answered yet.
NoReply == [none |-> TRUE]

\* raise HTTPException(status_code=404, detail="Task not found")
NotFound == [status_code |-> 404, detail |-> "Task not found"]

\* get_status: the record of the task, or the 404 when the task has none.
get_status(r) == IF HasRecord(r) THEN r ELSE NotFound

Paths == {"input", "output", "output_audio"}

NoFile == [kind |-> "none", frames |-> << >>]

Exists(f) == f.kind # "none"

\* os.path.getsize(path) > 0
NonEmpty(f) == f.kind \in {"upload", "video_only", "muxed", "partial"}

\* --------------------------------------------------------------- progress

RECURSIVE GCD(_, _)
GCD(a, b) == IF b = 0 THEN a ELSE GCD(b, a % b)

RECURSIVE IsPowerOfTwo(_)
IsPowerOfTwo(n) == IF n = 1 THEN TRUE ELSE IF n % 2 = 1 THEN FALSE ELSE IsPowerOfTwo(n \div 2)

\* int(((current_frame_num + 1) / frame_count) * 100) for a = current_frame_num + 1
\* and b = frame_count > 0. The quotient is a double: when a / b is not a binary
\* fraction it is rounded, and the product with 100 may fall just short of the
\* integer 100 * a / b, which int() then truncates to one less. Both outcomes are
\* kept; when 100 * a / b is no integer the rounding cannot reach the next
\* integer and the value is the floor.
ProgressValues(a, b) ==
    LET exact == (100 * a) \div b
    IN  IF (100 * a) % b = 0 /\ ~IsPowerOfTwo(b \div GCD(a, b))
        THEN {exact - 1, exact}
        ELSE {exact}

\* ------------------------------------------------------------- the pool

\* A future that has no result yet.
NoResult == [src |-> -1, inpainted |-> {}, blended |-> FALSE]

\* list(executor.map(...)) with the results written first-finished first
CompletionOrder(res, first) ==
    [i \in 1 .. Len(res) |->
        IF first = 0 THEN res[i]
        ELSE IF i = 1 THEN res[first]
        ELSE IF i <= first THEN res[i - 1]
        ELSE res[i]]

\* list(executor.map(...)): the futures' results in the order of submission
executor_map(res, first) == [i \in 1 .. Len(res) |-> res[i]]

\* One buffer behind every entry of masks (masks = [zeros] * n): what a worker
\* draws shows in every frame's mask.
StoreMaskShared(ms, i, m) == [j \in 1 .. Len(ms) |-> m]

\* A worker that draws into the mask of the frame after its own.
StoreMaskNeighbour(ms, i, m) == [ms EXCEPT ![(i % Len(ms)) + 1] = m]

\* masks = [np.zeros(...) for frame in frame_batch]: one buffer per frame, and
\* the call for item i draws into masks[i] alone.
StoreMask(ms, i, m) == [ms EXCEPT ![i] = m]

\* ------------------------------------------------------------------- Init

\* upload_video has returned: the input file is saved, the background job is
\* scheduled, and nothing has been stored in processing_status yet.
PipeInit ==
    /\ pc = "queued"
    /\ processing_status = NoRecord
    /\ fs = [p \in Paths |-> IF p = "input" THEN [kind |-> "upload", frames |-> << >>]
                                             ELSE NoFile]
    /\ cap_opened = FALSE
    /\ out_opened = FALSE
    /\ fps = 0
    /\ frame_count = 0
    /\ max_workers = 0
    /\ decoded = 0
    /\ read_failed = FALSE
    /\ current_frame_num = 0
    /\ frame_batch = << >>
    /\ time_batch = << >>
    /\ masks = << >>
    /\ next_item = 0
    /\ running = {}
    /\ results = << >>
    /\ first_done = 0
    /\ processed_frames = << >>
    /\ write_idx = 0
    /\ written = << >>
    /\ encoder = "none"
    /\ result = "none"

\* The host and the upload: a single processor with a stream of up to
\* MaxFrames frames, or any of the hosts with a short stream; the upload with
\* or without a webhook_url.
HostInit ==
    /\ \/ cpu_count = 1 /\ stream_len = MaxFrames
       \/ cpu_count \in CpuCounts \cup ManyCpuCounts /\ stream_len = MaxShortFrames
    /\ webhook_url \in BOOLEAN
    /\ webhook_posts = << >>
    /\ last_reply = NoReply

Init == PipeInit /\ HostInit

poolVars == <<masks, next_item, running, results, first_done>>

capVars == <<cap_opened, out_opened, fps, frame_count, max_workers>>

loopVars == <<decoded, read_failed, current_frame_num, frame_batch, time_batch>>

\* --------------------------------------- process_video_with_inpainting

\* processing_status[task_id] = {"status": "processing", "progress": 0}
SetProcessing ==
    /\ UNCHANGED <<hostVars, webhook_posts, last_reply>>
    /\ pc = "queued"
    /\ processing_status' = [status |-> "processing", progress |-> 0]
    /\ pc' = "open"
    /\ UNCHANGED <<fs, capVars, loopVars, poolVars, processed_frames, write_idx,
                   written, encoder, result>>

\* The check of cap.isOpened() placed after the construction of the writer: the
\* error record is stored and None returned once the output file exists.
OpenFailsAfterWriter ==
    /\ UNCHANGED <<hostVars, webhook_posts, last_reply>>
    /\ pc = "open"
    /\ processing_status' = [status |-> "error", message |-> "Could not open video file"]
    /\ fs' = [fs EXCEPT !["output"] = [kind |-> "video_only", frames |-> << >>]]
    /\ result' = "None"
    /\ pc' = "returned"
    /\ UNCHANGED <<capVars, loopVars, poolVars, processed_frames, write_idx,
                   written, encoder>>

\* cap.isOpened() is False: the record becomes the error record, None is returned
OpenFails ==
    /\ UNCHANGED <<hostVars, webhook_posts, last_reply>>
    /\ pc = "open"
    /\ processing_status' = [status |-> "error", message |-> "Could not open video file"]
    /\ result' = "None"
    /\ pc' = "returned"
    /\ UNCHANGED <<fs, capVars, loopVars, poolVars, processed_frames, write_idx,
                   written, encoder>>

\* The capture opens: its properties are read, the VideoWriter is constructed
\* (it may fail to open, which is never looked at; when it opens, the file at
\* output_video_path exists), and the loop's variables are set up.
OpenVideo ==
    /\ UNCHANGED <<hostVars, webhook_posts, last_reply>>
    /\ pc = "open"
    /\ \E f \in FpsValues, c \in ReportedCounts, w \in BOOLEAN :
          /\ fps' = f
          /\ frame_count' = c
          /\ out_opened' = w
          /\ max_workers' = IF WorkerCap < cpu_count THEN WorkerCap ELSE cpu_count
          /\ fs' = IF w THEN [fs EXCEPT !["output"] = [kind |-> "video_only", frames |-> << >>]]
                        ELSE fs
    /\ cap_opened' = TRUE
    /\ current_frame_num' = 0
    /\ frame_batch' = << >>
    /\ time_batch' = << >>
    /\ pc' = "read"
    /\ UNCHANGED <<processing_status, decoded, read_failed, poolVars, processed_frames,
                   write_idx, written, encoder, result>>

\* ret, frame = cap.read() with ret False: the loop is left
ReadFails ==
    /\ UNCHANGED <<hostVars, webhook_posts, last_reply>>
    /\ pc = "read"
    /\ cap_opened
    /\ read_failed' = TRUE
    /\ pc' = "release"
    /\ UNCHANGED <<processing_status, fs, capVars, decoded, current_frame_num, frame_batch,
                   time_batch, poolVars, processed_frames, write_idx, written, encoder,
                   result>>

\* len(frame_batch) >= batch_size or current_frame_num == frame_count - 1
BatchDue(batch, n, count) == Len(batch) >= batch_size \/ n = count - 1

\* One pass of the loop body up to the batch test, for a frame that was read:
\* current_time = current_frame_num / fps raises ZeroDivisionError when fps is 0;
\* otherwise the frame and its time join the batch and either the batch is
\* handed to a new executor (one zeroed mask per frame, every item submitted)
\* or current_frame_num is advanced.
ReadFrame ==
    /\ UNCHANGED <<hostVars, webhook_posts, last_reply>>
    /\ pc = "read"
    /\ cap_opened
    /\ decoded < stream_len
    /\ decoded' = decoded + 1
    /\ IF fps = 0
       THEN /\ result' = "ZeroDivisionError"
            /\ pc' = "raised"
            /\ UNCHANGED <<current_frame_num, frame_batch, time_batch, poolVars>>
       ELSE LET batch == Append(frame_batch, RawFrame(decoded))
                times == Append(time_batch, TimeOf(current_frame_num, fps))
            IN  /\ frame_batch' = batch
                /\ time_batch' = times
                /\ result' = result
                /\ IF BatchDue(batch, current_frame_num, frame_count)
                   THEN /\ masks' = [i \in 1 .. Len(batch) |-> ZeroMask]
                        /\ results' = [i \in 1 .. Len(batch) |-> NoResult]
                        /\ next_item' = 1
                        /\ running' = {}
                        /\ first_done' = 0
                        /\ pc' = "pool"
                        /\ UNCHANGED current_frame_num
                   ELSE /\ current_frame_num' = current_frame_num + 1
                        /\ pc' = "read"
                        /\ UNCHANGED poolVars
    /\ UNCHANGED <<processing_status, fs, capVars, read_failed, processed_frames, write_idx,
                   written, encoder>>

\* An idle worker thread takes the next submitted item off the executor's queue.
WorkerTake ==
    /\ UNCHANGED <<hostVars, webhook_posts, last_reply>>
    /\ pc = "pool"
    /\ next_item <= Len(frame_batch)
    /\ Cardinality(running) < max_workers
    /\ running' = running \cup {next_item}
    /\ next_item' = next_item + 1
    /\ UNCHANGED <<pc, processing_status, fs, capVars, loopVars, masks, results, first_done,
                   processed_frames, write_idx, written, encoder, result>>

\* A worker finishes process_frame_with_watermark(frame_batch[i], masks[i],
\* time_batch[i]): the mask buffer is drawn into, the future holds the result.
WorkerFinish ==
    /\ UNCHANGED <<hostVars, webhook_posts, last_reply>>
    /\ pc = "pool"
    /\ \E i \in running :
          LET r == process_frame_with_watermark(frame_batch[i], masks[i], time_batch[i])
          IN  /\ masks' = StoreMask(masks, i, r.mask)
              /\ results' = [results EXCEPT ![i] = r.ret]
              /\ running' = running \ {i}
              /\ first_done' = IF first_done = 0 THEN i ELSE first_done
    /\ UNCHANGED <<pc, processing_status, fs, capVars, loopVars, next_item,
                   processed_frames, write_idx, written, encoder, result>>

\* list(executor.map(...)) returning once every item was taken by a worker,
\* without waiting for the ones still running.
GatherEarly ==
    /\ UNCHANGED <<hostVars, webhook_posts, last_reply>>
    /\ pc = "pool"
    /\ next_item > Len(frame_batch)
    /\ processed_frames' = executor_map(results, first_done)
    /\ write_idx' = 1
    /\ running' = {}
    /\ pc' = "write"
    /\ UNCHANGED <<processing_status, fs, capVars, loopVars, masks, next_item, results,
                   first_done, written, encoder, result>>

\* Every item is done: list(executor.map(...)) is complete and the with block
\* is left.
Gather ==
    /\ UNCHANGED <<hostVars, webhook_posts, last_reply>>
    /\ pc = "pool"
    /\ next_item > Len(frame_batch)
    /\ running = {}
    /\ processed_frames' = executor_map(results, first_done)
    /\ write_idx' = 1
    /\ pc' = "write"
    /\ UNCHANGED <<processing_status, fs, capVars, loopVars, poolVars, written, encoder,
                   result>>

\* out.write(processed_frame): a writer that did not open drops the frame
WriteFrame ==
    /\ UNCHANGED <<hostVars, webhook_posts, last_reply>>
    /\ pc = "write"
    /\ write_idx <= Len(processed_frames)
    /\ written' = Append(written, processed_frames[write_idx])
    /\ fs' = IF out_opened
             THEN [fs EXCEPT !["output"].frames = Append(@, processed_frames[write_idx])]
             ELSE fs
    /\ write_idx' = write_idx + 1
    /\ UNCHANGED <<pc, processing_status, capVars, loopVars, poolVars, processed_frames,
                   encoder, result>>

\* The batch is written: the batches are cleared and the progress is stored,
\* (current_frame_num + 1) / frame_count raising ZeroDivisionError when
\* frame_count is 0; then current_frame_num += 1.
EndBatch ==
    /\ UNCHANGED <<hostVars, webhook_posts, last_reply>>
    /\ pc = "write"
    /\ write_idx > Len(processed_frames)
    /\ frame_batch' = << >>
    /\ time_batch' = << >>
    /\ masks' = << >>
    /\ results' = << >>
    /\ next_item' = 0
    /\ running' = {}
    /\ first_done' = 0
    /\ processed_frames' = << >>
    /\ write_idx' = 0
    /\ IF frame_count = 0
       THEN /\ result' = "ZeroDivisionError"
            /\ pc' = "raised"
            /\ UNCHANGED <<processing_status, current_frame_num>>
       ELSE /\ \E p \in ProgressValues(current_frame_num + 1, frame_count) :
                  processing_status' = [processing_status EXCEPT !.progress = p]
            /\ current_frame_num' = current_frame_num + 1
            /\ pc' = "read"
            /\ UNCHANGED result
    /\ UNCHANGED <<fs, capVars, decoded, read_failed, written, encoder>>

\* cap.release(); out.release(); cv2.destroyAllWindows()
Release ==
    /\ UNCHANGED <<hostVars, webhook_posts, last_reply>>
    /\ pc = "release"
    /\ cap_opened' = FALSE
    /\ out_opened' = FALSE
    /\ pc' = "audio"
    /\ UNCHANGED <<processing_status, fs, fps, frame_count, max_workers, loopVars, poolVars,
                   processed_frames, write_idx, written, encoder, result>>

\* processing_status[task_id]["status"] = "adding_audio"
SetAddingAudio ==
    /\ UNCHANGED <<hostVars, webhook_posts, last_reply>>
    /\ pc = "audio"
    /\ processing_status' = [processing_status EXCEPT !.status = "adding_audio"]
    /\ pc' = "ffmpeg"
    /\ UNCHANGED <<fs, capVars, loopVars, poolVars, processed_frames, write_idx, written,
                   encoder, result>>

\* What ffmpeg leaves at output_with_audio for an outcome, given the
\* video-only intermediate it read.
EncoderOutput(e, video) ==
    CASE e = "ok"      -> [kind |-> "muxed", frames |-> video.frames]
      [] e = "partial" -> [kind |-> "partial", frames |-> << >>]
      [] e = "empty"   -> [kind |-> "empty", frames |-> << >>]
      [] OTHER         -> NoFile

\* The outcomes open to ffmpeg: without a file at output_video_path, or with
\* one that holds no frame for -map 0:v:0, it fails before it opens its output
\* and writes nothing.
PossibleOutcomes(video) ==
    IF Exists(video) /\ Len(video.frames) > 0
    THEN EncoderOutcomes
    ELSE {"no_output", "raised"}

\* Where the pipeline stands after subprocess.run(cmd, capture_output=True,
\* text=True): the call has no timeout, so it waits for as long as the child
\* does not exit.
NextAfterFfmpeg(e) ==
    CASE e = "raised" -> "complete"
      [] e = "hang"   -> "stalled"
      [] OTHER        -> "replace"

\* result = subprocess.run(cmd, capture_output=True, text=True): the return
\* code is not looked at. An exception is swallowed by "except Exception: pass".
RunFfmpeg ==
    /\ UNCHANGED <<hostVars, webhook_posts, last_reply>>
    /\ pc = "ffmpeg"
    /\ \E e \in PossibleOutcomes(fs["output"]) :
          /\ encoder' = e
          /\ fs' = [fs EXCEPT !["output_audio"] = EncoderOutput(e, fs["output"])]
          /\ pc' = NextAfterFfmpeg(e)
    /\ UNCHANGED <<processing_status, capVars, loopVars, poolVars, processed_frames,
                   write_idx, written, result>>

\* The remux test without the size check: os.path.exists(output_with_audio) alone
ReplaceDueAlways(files) == Exists(files["output_audio"])

\* os.path.exists(output_with_audio) and os.path.getsize(output_with_audio) > 0
ReplaceDue(files) == Exists(files["output_audio"]) /\ NonEmpty(files["output_audio"])

\* os.remove(output_video_path); os.rename(output_with_audio, output_video_path)
\* when the test holds. os.remove raises for a missing file, which is swallowed
\* before the rename.
Replace ==
    /\ UNCHANGED <<hostVars, webhook_posts, last_reply>>
    /\ pc = "replace"
    /\ fs' = IF ReplaceDue(fs) /\ Exists(fs["output"])
             THEN [fs EXCEPT !["output"] = fs["output_audio"], !["output_audio"] = NoFile]
             ELSE fs
    /\ pc' = "complete"
    /\ UNCHANGED <<processing_status, capVars, loopVars, poolVars, processed_frames,
                   write_idx, written, encoder, result>>

\* processing_status[task_id] = {"status": "completed", "progress": 100};
\* return output_video_path
Complete ==
    /\ UNCHANGED <<hostVars, webhook_posts, last_reply>>
    /\ pc = "complete"
    /\ processing_status' = [status |-> "completed", progress |-> 100]
    /\ result' = "output_video_path"
    /\ pc' = "returned"
    /\ UNCHANGED <<fs, capVars, loopVars, poolVars, processed_frames, write_idx, written,
                   encoder>>

\* ------------------------------------------------------- process_video_async

\* The caller's test if every return were taken for a failure
ResultIsAnything(r) == r \in {"None", "output_video_path"}

\* result is None
ResultIsNone(r) == r = "None"

\* After process_video_with_inpainting returned: a None result stores the error
\* record; the branch that would send the video to the webhook hangs under
\* "if webhook_url:" inside the None case and is never taken. Then the input
\* file is removed.
\* The webhook traffic of process_video_async once the pipeline has returned,
\* nested as the source nests it: the else that sends the video belongs to the
\* "if webhook_url" inside "if result is None".
WebhookAfterReturn(posts, none, url) ==
    IF none
    THEN IF url
         THEN Append(posts, "error")
         ELSE IF url THEN Append(posts, "video") ELSE posts
    ELSE posts

\* The webhook traffic of the except branch: the error is posted when a
\* webhook_url was given.
WebhookAfterRaise(posts, url) == IF url THEN Append(posts, "error") ELSE posts

AsyncReturned ==
    /\ UNCHANGED <<hostVars, last_reply>>
    /\ webhook_posts' = WebhookAfterReturn(webhook_posts, ResultIsNone(result), webhook_url)
    /\ pc = "returned"
    /\ processing_status' = IF ResultIsNone(result)
                            THEN [status |-> "error", message |-> "Video processing failed"]
                            ELSE processing_status
    /\ fs' = [fs EXCEPT !["input"] = NoFile]
    /\ pc' = "done"
    /\ UNCHANGED <<capVars, loopVars, poolVars, processed_frames, write_idx, written,
                   encoder, result>>

\* except Exception as e: the record becomes {"status": "error", "message": str(e)}
AsyncExcept ==
    /\ UNCHANGED <<hostVars, last_reply>>
    /\ webhook_posts' = WebhookAfterRaise(webhook_posts, webhook_url)
    /\ pc = "raised"
    /\ processing_status' = [status |-> "error", message |-> result]
    /\ pc' = "done"
    /\ UNCHANGED <<fs, capVars, loopVars, poolVars, processed_frames, write_idx, written,
                   encoder, result>>

\* process_video_async never awaits while the pipeline runs, so the event loop
\* serves a request only before the job has started or after it has ended.
LoopFree == pc \in {"queued", "done"}

\* GET /status/{task_id}
GetStatus ==
    /\ LoopFree
    /\ last_reply' = get_status(processing_status)
    /\ UNCHANGED <<pipeVars, hostVars, webhook_posts>>

\* A cleanup that removes every file of the task, the leftover of the remux
\* step included.
CleanupFilesAll(files) == [p \in Paths |-> NoFile]

\* if output_path.exists(): os.remove(output_path)
CleanupFiles(files) ==
    IF Exists(files["output"]) THEN [files EXCEPT !["output"] = NoFile] ELSE files

\* if task_id in processing_status: del processing_status[task_id]
CleanupRecord(r) == IF HasRecord(r) THEN NoRecord ELSE r

\* DELETE /cleanup/{task_id}
cleanup_files ==
    /\ LoopFree
    /\ fs' = CleanupFiles(fs)
    /\ processing_status' = CleanupRecord(processing_status)
    /\ UNCHANGED <<pc, capVars, loopVars, poolVars, processed_frames, write_idx, written,
                   encoder, result, hostVars, webhook_posts, last_reply>>

Next ==
    \/ SetProcessing
    \/ OpenFails
    \/ OpenVideo
    \/ ReadFails
    \/ ReadFrame
    \/ WorkerTake
    \/ WorkerFinish
    \/ Gather
    \/ WriteFrame
    \/ EndBatch
    \/ Release
    \/ SetAddingAudio
    \/ RunFfmpeg
    \/ Replace
    \/ Complete
    \/ AsyncReturned
    \/ AsyncExcept
    \/ GetStatus
    \/ cleanup_files

Spec == Init /\ [][Next]_vars

\* ================================================================== claims

\* The rectangles of the regions whose window [start, end) holds frame k's
\* time k / f, decided on the integers: start <= k / f < end with start and end
\* in tenths is  start * f <= 10 * k < end * f.
ActiveRects(k, f) ==
    { FilledRect(WATERMARK_MASKS[j]) :
        j \in { j \in 1 .. Len(WATERMARK_MASKS) :
                  /\ WATERMARK_MASKS[j].start * f <= 10 * k
                  /\ 10 * k < WATERMARK_MASKS[j].end * f } }

\* C1: for every frame, the regions drawn into its mask are exactly those with
\* start <= t < end for t = frame_index / fps (active at t = start, inactive at
\* t = end), the mask is the union of all of them and the frame is rebuilt
\* under that one mask; at 30 fps the region on [0.0, 1.0) is drawn for frames
\* 0..29 and for no frame from 30 on.
C1_MaskIsActiveRegions ==
    /\ \A i \in 1 .. Len(written) :
          /\ written[i].inpainted = ActiveRects(written[i].src, fps)
          /\ fps = 30 =>
                (FilledRect(WATERMARK_MASKS[1]) \in written[i].inpainted
                    <=> written[i].src <= 29)
    /\ \A i \in 1 .. Len(results) :
          results[i] # NoResult =>
              /\ masks[i] = ActiveRects(frame_batch[i].src, fps)
              /\ results[i].inpainted = masks[i]

\* C1 witness: at 30 fps frame 29 was written with two overlapping regions
\* rebuilt and frame 30 (t = 1.0, the end of region 1) with region 2 alone.
C1_Witness ==
    /\ fps = 30
    /\ Len(written) >= 31
    /\ written[30].src = 29
    /\ Cardinality(written[30].inpainted) = 2
    /\ written[31].inpainted = {FilledRect(WATERMARK_MASKS[2])}

\* C2: the k-th frame passed to the writer is the processed result of the k-th
\* frame decoded, whatever the order in which the workers finished.
C2_WrittenInDecodeOrder ==
    \A k \in 1 .. Len(written) :
        written[k] = process_frame_with_watermark(RawFrame(k - 1), ZeroMask,
                                                  TimeOf(k - 1, fps)).ret

\* C2 witness: in the batch being written a later frame finished before the
\* first one, and frames beyond it have been written.
C2_Witness ==
    /\ pc = "write"
    /\ first_done > 1
    /\ write_idx > first_done
    /\ Len(written) > first_done

\* C3 as claimed: once the read loop has ended, as many frames were written as
\* were decoded.
C3_AllDecodedWritten == read_failed => Len(written) = decoded

\* C4 as claimed: when cap.read() fails before the reported number of frames
\* was read, the task never shows status completed.
C4_TruncationIsError ==
    (read_failed /\ decoded < frame_count) => StatusOf(processing_status) # "completed"

\* C5 as claimed: the stored progress never decreases, and a completed task
\* shows progress 100.
C5_ProgressMonotone ==
    /\ [](StatusOf(processing_status) = "completed" => processing_status.progress = 100)
    /\ [][(HasProgress(processing_status) /\ HasProgress(processing_status'))
             => processing_status'.progress >= processing_status.progress]_vars

\* C6 as claimed: a stored progress lies in 0..100.
C6_ProgressInRange ==
    HasProgress(processing_status) =>
        (processing_status.progress >= 0 /\ processing_status.progress <= 100)

\* The place of a status on the way processing -> adding_audio -> completed.
Rank(st) ==
    CASE st = "absent"       -> 0
      [] st = "processing"   -> 1
      [] st = "adding_audio" -> 2
      [] st = "completed"    -> 3
      [] OTHER               -> 4

\* A step of the status allowed by C7.
StatusStep(a, b) ==
    \/ a = b
    \/ a \in {"absent", "processing", "adding_audio"} /\ b = "error"
    \/ a \in {"absent", "processing", "adding_audio"} /\ Rank(b) \in 1 .. 3 /\ Rank(a) < Rank(b)

\* C7: in every step of process_video_with_inpainting and of its caller
\* process_video_async (the steps taken before the job has ended) the status
\* moves forward along processing -> adding_audio -> completed or to error from
\* a non-terminal status; completed and error are never left.
C7_StatusForwardOnly ==
    [][pc # "done" =>
          StatusStep(StatusOf(processing_status), StatusOf(processing_status'))]_vars

\* C7 witness: the status went all the way to completed (the encoder having
\* succeeded) and the caller has finished with the record still completed.
C7_Witness ==
    /\ pc = "done"
    /\ StatusOf(processing_status) = "completed"
    /\ encoder = "ok"

\* The encoder failed.
EncoderFailed == encoder \in {"no_output", "partial", "empty", "raised"}

\* The remux step is over.
RemuxOver == pc \in {"complete", "returned", "done"}

\* C8 as claimed: after a failed encode step the task ends in error with the
\* video-only intermediate at the output path.
C8_EncodeFailureIsError ==
    (pc = "done" /\ EncoderFailed) =>
        /\ StatusOf(processing_status) = "error"
        /\ fs["output"].kind = "video_only"

\* C8 as amended: after a failed encode step the task ends completed; the file
\* at the output path is left as it was by every step of the job from the
\* encoder's run on, unless the encoder left a non-empty file, which then takes
\* its place. (The record and the file stay until an explicit cleanup.)
C8_EncodeFailureCompletes ==
    /\ []((pc = "returned" /\ EncoderFailed) => StatusOf(processing_status) = "completed")
    /\ []((pc = "done" /\ EncoderFailed /\ HasRecord(processing_status))
             => StatusOf(processing_status) = "completed")
    /\ []((RemuxOver /\ encoder = "partial" /\ Exists(fs["output"]))
             => fs["output"].kind = "partial")
    /\ [][(pc # "done" /\ encoder' \in {"no_output", "empty", "raised"})
             => fs'["output"] = fs["output"]]_vars

\* C8 witness: the encoder wrote a zero-byte file for a video of several
\* frames; the task is completed and the intermediate is in place.
C8_Witness ==
    /\ pc = "done"
    /\ encoder = "empty"
    /\ StatusOf(processing_status) = "completed"
    /\ fs["output"] = [kind |-> "video_only", frames |-> written]
    /\ Len(written) > 1

\* C9 as claimed: after an encoder run that exited non-zero or wrote a
\* zero-byte file, the output path still holds the unmodified intermediate
\* (or nothing, where the writer never created one).
C9_FailedEncodeKeepsIntermediate ==
    (RemuxOver /\ encoder \in {"no_output", "partial", "empty"}) =>
        \/ fs["output"] = NoFile
        \/ fs["output"] = [kind |-> "video_only", frames |-> written]

\* C10 as claimed: a completed task has a file at its output path.
C10_CompletedHasOutput ==
    StatusOf(processing_status) = "completed" => Exists(fs["output"])

\* C11: a status query answered after the upload returned finds the record of
\* the task; while the job has not ended (no cleanup has removed anything yet)
\* it is never answered "Task not found".
C11_QueryFindsRecord == pc # "done" => last_reply # NotFound

\* C18: a job that ended completed for an upload with a webhook_url has sent
\* the processed video to the webhook.
C18_SuccessSendsVideo ==
    (pc = "done" /\ webhook_url /\ StatusOf(processing_status) = "completed")
        => \E i \in DOMAIN webhook_posts : webhook_posts[i] = "video"

\* The task has reached a final status.
Terminal == StatusOf(processing_status) \in {"completed", "error"}

\* C12: a task that is not yet completed or in error can always take a further
\* step, so that no task stays in adding_audio for ever behind an encoder that
\* does not return.
C12_NoStall == Terminal \/ ENABLED Next

\* The frame the pipeline writes for decode index k of a stream of f frames a
\* second, when the frames are processed one after the other.
SequentialFrame(k, f) ==
    process_frame_with_watermark(RawFrame(k), ZeroMask, TimeOf(k, f)).ret

\* How many frames a one-after-the-other run has written when the capture ends
\* after D frames of a stream that reports c: the batches start at s and end
\* with the 50th frame or with frame c - 1.
RECURSIVE FlushedCount(_, _, _)
FlushedCount(s, D, c) ==
    LET full == s + batch_size
        e == IF s < c /\ c < full THEN c ELSE full
    IN  IF e <= D THEN FlushedCount(e, D, c) ELSE s

\* C13: the written frames are a function of the input (its frames, its frame
\* rate, its reported count) and the region table alone: whatever the pool
\* size and the order in which the workers finish, frame i written is the frame
\* a sequential run writes, and when the loop is over as many are written.
C13_OutputIsFunctionOfInput ==
    /\ \A i \in 1 .. Len(written) : written[i] = SequentialFrame(i - 1, fps)
    /\ pc = "release" => Len(written) = FlushedCount(0, decoded, frame_count)

\* C13 witness: a pool of 8 threads finished a later frame of a batch first and
\* the batch is written.
C13_Witness ==
    /\ max_workers = 8
    /\ pc = "write"
    /\ first_done > 1
    /\ write_idx > Len(processed_frames)
    /\ Len(written) >= 2
    /\ written[1].inpainted # {}

\* C20: in a batch every frame has a mask of its own and its own pixels: a
\* frame no worker has taken yet has its mask still zero, a mask holds nothing
\* but the regions of its own frame, and the frames handed to the workers are
\* the decoded frames, untouched.
C20_OwnBuffers ==
    pc = "pool" =>
        /\ Len(masks) = Len(frame_batch)
        /\ \A i \in 1 .. Len(frame_batch) :
              /\ frame_batch[i] = RawFrame(frame_batch[i].src)
              /\ masks[i] \subseteq ActiveRects(frame_batch[i].src, fps)
              /\ i >= next_item => masks[i] = ZeroMask

\* C20 witness: two frames are in flight, a third is done with regions in its
\* mask, and a frame of the batch is not taken yet.
C20_Witness ==
    /\ pc = "pool"
    /\ Cardinality(running) = 2
    /\ next_item <= Len(frame_batch)
    /\ \E i \in 1 .. Len(results) : results[i] # NoResult /\ masks[i] # ZeroMask

\* C14: a frame at whose time no region is active comes back from
\* process_frame_with_watermark as the input frame itself, not inpainted, not
\* blurred, not blended, and is written so.
C14_InactiveFrameUntouched ==
    /\ \A i \in 1 .. Len(results) :
          (results[i] # NoResult /\ ActiveRects(frame_batch[i].src, fps) = {})
              => results[i] = frame_batch[i]
    /\ \A i \in 1 .. Len(written) :
          ActiveRects(written[i].src, fps) = {} => written[i] = RawFrame(written[i].src)

\* C14 witness: a frame with no active region and a frame with one were written.
C14_Witness ==
    \E i, j \in 1 .. Len(written) :
        /\ ActiveRects(written[i].src, fps) = {}
        /\ ActiveRects(written[j].src, fps) # {}
        /\ written[j].blended

\* The distance of p from the interval lo .. hi.
AxisDist(p, lo, hi) == IF p < lo THEN lo - p ELSE IF p > hi THEN p - hi ELSE 0

\* Pixel (px, py) is more than 10 pixels away, in x or in y, from every masked
\* pixel.
FartherThanTen(mask, px, py) ==
    \A r \in mask : AxisDist(px, r.x0, r.x1) > 10 \/ AxisDist(py, r.y0, r.y1) > 10

\* The coordinates at, 10 from and 11 from the edges of the rectangles of a mask.
EdgeCoords(lows, highs) ==
    { c \in UNION { {lo - 11, lo - 10, lo} : lo \in lows }
             \cup UNION { {hi, hi + 10, hi + 11} : hi \in highs } : c >= 0 }

SamplePixels(mask) ==
    EdgeCoords({r.x0 : r \in mask}, {r.x1 : r \in mask})
        \X EdgeCoords({r.y0 : r \in mask}, {r.y1 : r \in mask})

C17_OpenFailureStopsEverything ==
    result = "None" =>
        /\ pc = "returned" => StatusOf(processing_status) = "error"
        /\ StatusOf(processing_status) \in {"error", "absent"}
        /\ HasRecord(processing_status) \/ pc = "done"
        /\ decoded = 0
        /\ frame_batch = << >>
        /\ results = << >>
        /\ written = << >>
        /\ ~out_opened
        /\ ~Exists(fs["output"])
        /\ ~Exists(fs["output_audio"])
        /\ encoder = "none"

\* C17 witness: the job has ended after the input could not be opened.
C17_Witness ==
    /\ pc = "done"
    /\ result = "None"
    /\ processing_status = [status |-> "error", message |-> "Video processing failed"]

\* C19: a record in status error carries a message and the stage reached
\* before the failure (the progress recorded so far).
C19_ErrorKeepsStage ==
    StatusOf(processing_status) = "error"
        => /\ "message" \in DOMAIN processing_status
           /\ HasProgress(processing_status)

\* The smaller of two numbers.
Min(a, b) == IF a < b THEN a ELSE b

\* C21: the batches are separated by a barrier and the pool is bounded: while
\* frames of a batch are reconstructed none of them is written, the writing
\* starts only when every frame of the batch has its result, no frame beyond
\* the batch is decoded until the batch is written, and at most
\* min(8, cpu_count) frames are being reconstructed at a time.
C21_BatchBarrier ==
    /\ Cardinality(running) <= Min(8, cpu_count)
    /\ pc = "pool" =>
          /\ Len(written) = frame_batch[1].src
          /\ decoded = frame_batch[Len(frame_batch)].src + 1
    /\ pc = "write" =>
          /\ running = {}
          /\ Len(processed_frames) = Len(frame_batch)
          /\ \A i \in 1 .. Len(processed_frames) : processed_frames[i] # NoResult
          /\ Len(written) = frame_batch[1].src + write_idx - 1
          /\ decoded = frame_batch[Len(frame_batch)].src + 1
    /\ (pc = "read" /\ frame_batch # << >>) =>
          /\ Len(written) = frame_batch[1].src
          /\ running = {}

\* C21 witness: on a host of two processors two frames of a batch are being
\* reconstructed, a third waits for a free worker and nothing of the batch is
\* written.
C21_Witness ==
    /\ pc = "pool"
    /\ cpu_count = 2
    /\ Cardinality(running) = 2
    /\ next_item <= Len(frame_batch)
    /\ Len(written) = 0

\* The regions of WATERMARK_MASKS active for decode index k at f frames a second.
ActiveRegions(k, f) ==
    { j \in 1 .. Len(WATERMARK_MASKS) :
        /\ WATERMARK_MASKS[j].start * f <= 10 * k
        /\ 10 * k < WATERMARK_MASKS[j].end * f }

\* C22: in the mask of a reconstructed frame the pixels set for an active
\* region {x, y, w, h} are those with x <= px < x + w and y <= py < y + h: its
\* corners (x, y) and (x + w - 1, y + h - 1) are set, and no pixel of column
\* x + w or of row y + h is set on its account.
C22_RectangleIsWByH ==
    \A i \in 1 .. Len(results) :
        results[i] # NoResult =>
            \A j \in ActiveRegions(frame_batch[i].src, fps) :
                LET wm == WATERMARK_MASKS[j]
                    own == masks[i] \cap {FilledRect(wm)}
                IN  /\ MaskPixel(own, wm.x, wm.y)
                    /\ MaskPixel(own, wm.x + wm.w - 1, wm.y + wm.h - 1)
                    /\ ~MaskPixel(own, wm.x + wm.w, wm.y)
                    /\ ~MaskPixel(own, wm.x, wm.y + wm.h)

\* What a step leaves alone when it touches the record and the output file only.
OnlyRecordAndOutputChange ==
    /\ fs'["input"] = fs["input"]
    /\ fs'["output_audio"] = fs["output_audio"]
    /\ UNCHANGED <<pc, capVars, loopVars, poolVars, processed_frames, write_idx, written,
                   encoder, result, hostVars, webhook_posts>>

\* The steps of C23: the step that removes the record leaves no output file and
\* changes nothing else; a step that removes the output file of an ended job
\* removes the record with it; and once the record of an ended job is gone, it
\* and the output file stay gone.
CleanupStep ==
    /\ (HasRecord(processing_status) /\ ~HasRecord(processing_status'))
          => ~Exists(fs'["output"]) /\ OnlyRecordAndOutputChange
    /\ (pc = "done" /\ Exists(fs["output"]) /\ ~Exists(fs'["output"]))
          => ~HasRecord(processing_status') /\ OnlyRecordAndOutputChange
    /\ (pc = "done" /\ ~HasRecord(processing_status))
          => ~HasRecord(processing_status') /\ ~Exists(fs'["output"])

====
